---- MODULE Spec2Model ----
(***************************************************************************)
(* Model of cmd/site/main.go: main and Build of the site backend.          *)
(*                                                                         *)
(* Strings whose characters the code inspects (file paths, post dates)     *)
(* are sequences of one-character strings.  A time.Time is the number of   *)
(* days since 1970-01-01: every time the program handles is a midnight     *)
(* UTC, so Time.Unix() is 86400 times that number and every comparison of  *)
(* Unix() values is the same comparison of day numbers.                    *)
(***************************************************************************)
EXTENDS Integers, Sequences, FiniteSets, TLC

VARIABLES pc, corpus, locale, idx, s, site, err, served, buildCalls

vars == <<pc, corpus, locale, idx, s, site, err, served, buildCalls>>

(***************************************************************************)
(* Bounds of the model.                                                    *)
(***************************************************************************)
MaxFiles == 2

(***************************************************************************)
(* time.Parse("2006-01-02", value)                                         *)
(***************************************************************************)
Digits == <<"0", "1", "2", "3", "4", "5", "6", "7", "8", "9">>

isDigit(c) == \E k \in 1..10 : Digits[k] = c

digitVal(c) == (CHOOSE k \in 1..10 : Digits[k] = c) - 1

\* the decimal value of the digit string str
RECURSIVE atoi(_)
atoi(str) ==
    IF str = <<>> THEN 0
    ELSE 10 * atoi(SubSeq(str, 1, Len(str) - 1)) + digitVal(str[Len(str)])

isLeap(year) == year % 4 = 0 /\ (year % 100 # 0 \/ year % 400 = 0)

daysIn(month, year) ==
    IF month = 2 THEN (IF isLeap(year) THEN 29 ELSE 28)
    ELSE IF month \in {4, 6, 9, 11} THEN 30 ELSE 31

RECURSIVE daysBefore(_, _)
daysBefore(month, year) ==
    IF month = 1 THEN 0
    ELSE daysBefore(month - 1, year) + daysIn(month - 1, year)

\* days from 0001-01-01 to the first day of year (negative for year 0)
daysSinceYearOne(year) ==
    LET y == year - 1
    IN  365 * y + (y \div 4) - (y \div 100) + (y \div 400)

\* days from 0001-01-01 to 1970-01-01
UnixEpochDays == 719162

\* time.Date(year, month, day, 0, 0, 0, 0, time.UTC) as days since 1970-01-01
Date(year, month, day) ==
    daysSinceYearOne(year) + daysBefore(month, year) + (day - 1) - UnixEpochDays

\* the zero time.Time, January 1 of year 1
ZeroTime == Date(1, 1, 1)

\* the layout "2006-01-02": four digits, "-", two digits, "-", two digits,
\* nothing after them, the month in 1..12 and the day within the month
layoutMatches(value) ==
    /\ Len(value) = 10
    /\ \A k \in {1, 2, 3, 4, 6, 7, 9, 10} : isDigit(value[k])
    /\ value[5] = "-"
    /\ value[8] = "-"

\* time.Parse: the time and whether the error is nil; the time is the zero
\* time whenever the error is not nil
TimeParse(value) ==
    IF ~layoutMatches(value) THEN [t |-> ZeroTime, ok |-> FALSE]
    ELSE LET year  == atoi(SubSeq(value, 1, 4))
             month == atoi(SubSeq(value, 6, 7))
             day   == atoi(SubSeq(value, 9, 10))
         IN  IF month < 1 \/ month > 12 THEN [t |-> ZeroTime, ok |-> FALSE]
             ELSE IF day < 1 \/ day > daysIn(month, year)
                  THEN [t |-> ZeroTime, ok |-> FALSE]
                  ELSE [t |-> Date(year, month, day), ok |-> TRUE]

\* Time.Unix(), in days
Unix(t) == t

\* the nil error
Nil == "nil"

\* the nil *Site
NilSite == [nil |-> TRUE]

(***************************************************************************)
(* The content directory.  A file name is written as its characters.       *)
(* Names lists the candidate entries under ./blog/ in the order            *)
(* filepath.Walk visits them (lexical within a directory).                 *)
(***************************************************************************)
ContentRoot == <<"b", "l", "o", "g">>

Names ==
    << <<"a", ".", "b", ".", "m", "d">>,
       <<"a", ".", "m", "d">>,
       <<"a", ".", "t", "x", "t">>,
       <<"b", ".", "m", "d">>,
       <<"v", "1", ".", "0", "/", "p", ".", "m", "d">> >>

\* filepath.Join(root, name): the path the walk function receives
Join(root, name) == root \o <<"/">> \o name

Date_2020_09_19 == <<"2", "0", "2", "0", "-", "0", "9", "-", "1", "9">>
Date_2021_01_01 == <<"2", "0", "2", "1", "-", "0", "1", "-", "0", "1">>
Date_2020_01_01 == <<"2", "0", "2", "0", "-", "0", "1", "-", "0", "1">>
Date_0000_01_01 == <<"0", "0", "0", "0", "-", "0", "1", "-", "0", "1">>
Date_2021_02_30 == <<"2", "0", "2", "1", "-", "0", "2", "-", "3", "0">>

\* A regular file whose header decodes: fields holds the header's keys.
GoodFile(fields, body) ==
    [isDir |-> FALSE, io |-> "ok", fields |-> fields, body |-> body]

\* An entry on which the walk, the open, the read or the decoding fails.
BadFile(io) ==
    [isDir |-> FALSE, io |-> io, fields |-> << >>, body |-> "none"]

IOFailures == {"walk", "open", "read", "decode"}

\* What an entry of the content directory can be.
Contents ==
    { GoodFile([title |-> "TL;DR Rust", date |-> Date_2020_09_19], "rust"),
      GoodFile([title |-> "New Year", date |-> Date_2021_01_01], "year"),
      GoodFile([title |-> "Old Year", date |-> Date_2020_01_01], "old"),
      GoodFile([title |-> "Year Zero", date |-> Date_0000_01_01], "zero"),
      GoodFile([title |-> "Bad Day", date |-> Date_2021_02_30], "day"),
      GoodFile([title |-> "Undated"], "undated"),
      [isDir |-> TRUE, io |-> "ok", fields |-> << >>, body |-> "none"] }
    \cup { BadFile(io) : io \in IOFailures }

\* The strictly increasing index sequences of length n into Names.
RECURSIVE Picks(_)
Picks(n) ==
    IF n = 0 THEN { << >> }
    ELSE { Append(q, k) : q \in Picks(n - 1), k \in 1..Len(Names) }

Increasing(q) == \A i \in 1..(Len(q) - 1) : q[i] < q[i + 1]

Corpora ==
    UNION { { [i \in 1..n |-> [path |-> Join(ContentRoot, Names[q[i]]),
                               content |-> c[i]]] :
                q \in { r \in Picks(n) : Increasing(r) },
                c \in [1..n -> Contents] } : n \in 0..MaxFiles }

(***************************************************************************)
(* front.Unmarshal(content, &fm) into postFM{Title, Date string}: a key    *)
(* the header lacks leaves the field at its zero value, the empty string.  *)
(***************************************************************************)
Unmarshal(content) ==
    [Title |-> IF "title" \in DOMAIN content.fields
               THEN content.fields.title ELSE "",
     Date  |-> IF "date" \in DOMAIN content.fields
               THEN content.fields.date ELSE << >>,
     remaining |-> content.body]

\* blackfriday.Run(remaining): the rendered HTML of a body
Run(body) == <<"html", body>>

\* strings.Split(path, ".")[0]: the text before the first "."
RECURSIVE SplitFirst(_)
SplitFirst(path) ==
    IF path = << >> \/ Head(path) = "." THEN << >>
    ELSE <<Head(path)>> \o SplitFirst(Tail(path))

NewPostWithSummary(path, content, addr) ==
    LET fm == Unmarshal(content)
    IN  [Title    |-> fm.Title,
         Date     |-> fm.Date,
         Link     |-> SplitFirst(path),
         Summary  |-> fm.remaining,
         Body     |-> fm.remaining,
         BodyHTML |-> Run(fm.remaining),
         addr     |-> addr]

\* p := &Post{...}; addr stands for the pointer, one allocation per file
NewPost(path, content, addr) ==
    LET fm == Unmarshal(content)
    IN  [Title    |-> fm.Title,
         Date     |-> fm.Date,
         Link     |-> SplitFirst(path),
         Summary  |-> "",
         Body     |-> fm.remaining,
         BodyHTML |-> Run(fm.remaining),
         addr     |-> addr]

(***************************************************************************)
(* Posts as sort.Interface, sort.Reverse and sort.Sort                     *)
(***************************************************************************)
LessUnparsedNewest(p, i, j) ==
    LET iDate == TimeParse(p[i].Date)
        jDate == TimeParse(p[j].Date)
    IN  iDate.ok /\ (~jDate.ok \/ Unix(iDate.t) < Unix(jDate.t))

Less(p, i, j) ==
    LET iDate == TimeParse(p[i].Date).t
        jDate == TimeParse(p[j].Date).t
    IN  Unix(iDate) < Unix(jDate)

ReverseLessForgotten(p, i, j) == Less(p, i, j)

\* sort.Reverse(p).Less(i, j)
ReverseLess(p, i, j) == Less(p, j, i)

\* The orders sort.Sort(sort.Reverse(p)) can leave p in: the permutations of
\* p in which no element is less than an element before it.  sort.Sort is
\* documented as not stable, so elements that compare equal may end in
\* either order.
SortOutcomes(p) ==
    { q \in { [i \in 1..Len(p) |-> p[f[i]]] : f \in Permutations(1..Len(p)) } :
        \A i, j \in 1..Len(q) : i < j => ~ReverseLess(q, j, i) }

(***************************************************************************)
(* Build and main                                                          *)
(***************************************************************************)
UrlPrefix == <<"https://christine.website/">>

(***************************************************************************)
(* The Locale Store: l := t.locales["en"] maps the (group, key) pairs of   *)
(* locales/en.json to their text.                                          *)
(***************************************************************************)
\* the keys Build looks up for the feed metadata
BuildKeys ==
    { <<"blog", "title">>, <<"blog", "description">>,
      <<"meta", "rss_copyright">>, <<"meta", "json_feed">>,
      <<"header", "name">> }

\* the text of a key in a complete locales/en.json
EnText(k) == <<"en", k[1], k[2]>>

\* The locales LoadLocale can produce: complete, or lacking one key.
Locales ==
    { [k \in BuildKeys \ m |-> EnText(k)] :
        m \in { {} } \cup { {k} : k \in BuildKeys } }

\* the locale before it is loaded
NoLocale == [k \in {} |-> << >>]

\* what a lookup of a missing key ends the build with
MissingKey == <<"missing locale key">>

\* l.Value(group, key): the localized text; a missing key is fatal
Value(l, group, key) ==
    IF <<group, key>> \in DOMAIN l THEN l[<<group, key>>] ELSE MissingKey

icon == <<"https://christine.website/static/img/avatar.png">>

NewSiteDefaultTitle(l) ==
    [Posts    |-> << >>,
     Resume   |-> "",
     rssFeed  |-> [Title       |-> <<"Blog">>,
                   Link        |-> [Href |-> <<"https://christine.website/blog">>],
                   Description |-> Value(l, "blog", "description"),
                   Copyright   |-> Value(l, "meta", "rss_copyright"),
                   Items       |-> << >>],
     jsonFeed |-> [Title       |-> <<"Blog">>,
                   HomePageURL |-> <<"https://christine.website">>,
                   FeedURL     |-> <<"https://christine.website/blog.json">>,
                   Description |-> Value(l, "blog", "description"),
                   UserComment |-> Value(l, "meta", "json_feed"),
                   Icon        |-> icon,
                   Favicon     |-> icon,
                   Author      |-> [Name   |-> Value(l, "header", "name"),
                                    Avatar |-> icon],
                   Items       |-> << >>]]

\* s := &Site{rssFeed: &feeds.Feed{...}, jsonFeed: &jsonfeed.Feed{...}}
NewSite(l) ==
    [Posts    |-> << >>,
     Resume   |-> "",
     rssFeed  |-> [Title       |-> Value(l, "blog", "title"),
                   Link        |-> [Href |-> <<"https://christine.website/blog">>],
                   Description |-> Value(l, "blog", "description"),
                   Copyright   |-> Value(l, "meta", "rss_copyright"),
                   Items       |-> << >>],
     jsonFeed |-> [Title       |-> Value(l, "blog", "title"),
                   HomePageURL |-> <<"https://christine.website">>,
                   FeedURL     |-> <<"https://christine.website/blog.json">>,
                   Description |-> Value(l, "blog", "description"),
                   UserComment |-> Value(l, "meta", "json_feed"),
                   Icon        |-> icon,
                   Favicon     |-> icon,
                   Author      |-> [Name   |-> Value(l, "header", "name"),
                                    Avatar |-> icon],
                   Items       |-> << >>]]

RssItemEpochFallback(item) ==
    [Title       |-> item.Title,
     Link        |-> [Href |-> UrlPrefix \o item.Link],
     Description |-> item.Summary,
     Created     |-> IF TimeParse(item.Date).ok THEN TimeParse(item.Date).t ELSE 0,
     Id          |-> << >>]

\* the feeds.Item appended for a post; Id is not set and keeps its zero value
RssItem(item) ==
    [Title       |-> item.Title,
     Link        |-> [Href |-> UrlPrefix \o item.Link],
     Description |-> item.Summary,
     Created     |-> TimeParse(item.Date).t,
     Id          |-> << >>]

\* the jsonfeed.Item appended for a post
JsonItem(item) ==
    [ID            |-> UrlPrefix \o item.Link,
     URL           |-> UrlPrefix \o item.Link,
     Title         |-> item.Title,
     DatePublished |-> TimeParse(item.Date).t,
     ContentHTML   |-> item.BodyHTML]

Init ==
    /\ pc = "main"
    /\ corpus \in Corpora
    /\ locale = NoLocale
    /\ idx = 1
    /\ s = NilSite
    /\ site = NilSite
    /\ err = Nil
    /\ served = NilSite
    /\ buildCalls = 0

\* return nil, err
ReturnError(e) ==
    /\ pc' = "returned"
    /\ site' = NilSite
    /\ err' = e

\* main: s, err := Build()
CallBuild ==
    /\ pc = "main"
    /\ pc' = "locales"
    /\ buildCalls' = buildCalls + 1
    /\ UNCHANGED <<corpus, locale, idx, s, site, err, served>>

\* Build: the two locales are opened and loaded, then the Site is allocated
\* with the feed metadata looked up in the "en" locale; a lookup that is
\* fatal ends the process inside Build
LoadLocales ==
    /\ pc = "locales"
    /\ \/ /\ \E e \in {"open locale", "load locale"} : ReturnError(e)
          /\ UNCHANGED <<s, locale>>
       \/ \E l \in Locales :
             /\ locale' = l
             /\ IF \E k \in BuildKeys : Value(l, k[1], k[2]) = MissingKey
                THEN /\ pc' = "exited"
                     /\ err' = "missing locale key"
                     /\ UNCHANGED <<s, site>>
                ELSE /\ pc' = "walk"
                     /\ s' = NewSite(l)
                     /\ UNCHANGED <<site, err>>
    /\ UNCHANGED <<corpus, idx, served, buildCalls>>

WalkFnSkipsUndecodable(content) ==
    IF content.io \in {"ok", "decode"} THEN Nil ELSE content.io

\* The error the function given to filepath.Walk returns for an entry: the
\* walk's own error, or that of os.Open, ioutil.ReadAll or front.Unmarshal.
WalkFnErr(content) ==
    IF content.io # "ok" THEN content.io ELSE Nil

\* Build: one call of the function given to filepath.Walk; an error it
\* returns ends the walk and Build returns it
WalkFile ==
    /\ pc = "walk"
    /\ idx <= Len(corpus)
    /\ LET f == corpus[idx]
       IN  IF WalkFnErr(f.content) # Nil
           THEN /\ ReturnError(WalkFnErr(f.content))
                /\ UNCHANGED <<s, idx>>
           ELSE /\ s' = IF f.content.isDir THEN s
                        ELSE [s EXCEPT !.Posts =
                                 Append(@, NewPost(f.path, f.content, idx))]
                /\ idx' = idx + 1
                /\ UNCHANGED <<pc, site, err>>
    /\ UNCHANGED <<corpus, locale, served, buildCalls>>

\* Build: the walk has returned nil; sort.Sort(sort.Reverse(s.Posts))
SortPosts ==
    /\ pc = "walk"
    /\ idx > Len(corpus)
    /\ \E sorted \in SortOutcomes(s.Posts) : s' = [s EXCEPT !.Posts = sorted]
    /\ pc' = "resume"
    /\ UNCHANGED <<corpus, locale, idx, site, err, served, buildCalls>>

\* Build: ioutil.ReadFile("./static/resume/resume.md") and its rendering
ReadResume ==
    /\ pc = "resume"
    /\ \/ /\ ReturnError("read resume")
          /\ UNCHANGED s
       \/ /\ s' = [s EXCEPT !.Resume = Run("resume")]
          /\ pc' = "feeds"
          /\ UNCHANGED <<site, err>>
    /\ UNCHANGED <<corpus, locale, idx, served, buildCalls>>

\* the posts in the order the walk appended them
InDiscoveryOrder(posts) ==
    CHOOSE q \in { [i \in 1..Len(posts) |-> posts[f[i]]] :
                      f \in Permutations(1..Len(posts)) } :
        \A i \in 1..(Len(q) - 1) : q[i].addr < q[i + 1].addr

BuildFeedsInDiscoveryOrder ==
    /\ pc = "feeds"
    /\ s' = [s EXCEPT
               !.rssFeed.Items  = [i \in 1..Len(s.Posts) |->
                                      RssItem(InDiscoveryOrder(s.Posts)[i])],
               !.jsonFeed.Items = [i \in 1..Len(s.Posts) |->
                                      JsonItem(InDiscoveryOrder(s.Posts)[i])]]
    /\ pc' = "routes"
    /\ UNCHANGED <<corpus, locale, idx, site, err, served, buildCalls>>

\* Build: for _, item := range s.Posts, one item appended to each feed
BuildFeeds ==
    /\ pc = "feeds"
    /\ s' = [s EXCEPT
               !.rssFeed.Items  = [i \in 1..Len(s.Posts) |-> RssItem(s.Posts[i])],
               !.jsonFeed.Items = [i \in 1..Len(s.Posts) |-> JsonItem(s.Posts[i])]]
    /\ pc' = "routes"
    /\ UNCHANGED <<corpus, locale, idx, site, err, served, buildCalls>>

\* Build: the routes are registered; return s, nil
ReturnSite ==
    /\ pc = "routes"
    /\ pc' = "returned"
    /\ site' = s
    /\ err' = Nil
    /\ UNCHANGED <<corpus, locale, idx, s, served, buildCalls>>

\* main: ln.FatalErr ends the process
FatalErr ==
    /\ pc = "returned"
    /\ err # Nil
    /\ pc' = "exited"
    /\ UNCHANGED <<corpus, locale, idx, s, site, err, served, buildCalls>>

ListenAndServeAfterFailure ==
    /\ pc = "returned"
    /\ pc' = "listening"
    /\ served' = site
    /\ UNCHANGED <<corpus, locale, idx, s, site, err, buildCalls>>

\* main: http.ListenAndServe(":"+port, s)
ListenAndServe ==
    /\ pc = "returned"
    /\ err = Nil
    /\ pc' = "listening"
    /\ served' = site
    /\ UNCHANGED <<corpus, locale, idx, s, site, err, buildCalls>>

Next ==
    \/ CallBuild
    \/ LoadLocales
    \/ WalkFile
    \/ SortPosts
    \/ ReadResume
    \/ BuildFeeds
    \/ ReturnSite
    \/ FatalErr
    \/ ListenAndServe

Spec == Init /\ [][Next]_vars

(***************************************************************************)
(* Properties                                                              *)
(***************************************************************************)
\* Build has returned a Site (and a nil error) to main
Built == site # NilSite

\* the parsed date of a post, and whether its Date parsed
DateOf(post) == TimeParse(post.Date).t
Parses(post) == TimeParse(post.Date).ok

\* the entries of the corpus that are regular files
RegularFiles == { k \in 1..Len(corpus) : ~corpus[k].content.isDir }

\* C1: after a successful Build every post of Site.Posts has a date, as
\* time.Parse("2006-01-02") returns it (the zero time when it returns an
\* error), that is not earlier than the date of the post after it.
C1_IndexNonIncreasing ==
    Built => \A i \in 1..(Len(site.Posts) - 1) :
                 DateOf(site.Posts[i]) >= DateOf(site.Posts[i + 1])

\* C1 witness: a built index in which a post discovered later stands before
\* an older post discovered earlier.
C1_Witness ==
    /\ Built
    /\ Len(site.Posts) >= 2
    /\ DateOf(site.Posts[1]) > DateOf(site.Posts[2])
    /\ Parses(site.Posts[1]) /\ Parses(site.Posts[2])
    /\ site.Posts[1].addr > site.Posts[2].addr

\* C2: the sort of Build is stable: of two posts with equal dates the one
\* the walk discovered first stands first in Site.Posts.
C2_SortIsStable ==
    Built => \A i, j \in 1..Len(site.Posts) :
                 (i < j /\ DateOf(site.Posts[i]) = DateOf(site.Posts[j]))
                     => site.Posts[i].addr < site.Posts[j].addr

\* C3: when a post file's header has no date field, Build returns an error
\* and main never listens.
C3_MissingDateFails ==
    (\E k \in RegularFiles :
        /\ corpus[k].content.io = "ok"
        /\ "date" \notin DOMAIN corpus[k].content.fields)
    => /\ pc # "listening"
       /\ pc \in {"returned", "exited"} => err # Nil

\* C4: after a successful Build no two posts of Site.Posts have the same
\* Link.
C4_LinksUnique ==
    Built => \A i, j \in 1..Len(site.Posts) :
                 i # j => site.Posts[i].Link # site.Posts[j].Link

\* C5: after a successful Build each feed has one item per post of
\* Site.Posts, in order, and the identifier of every item is the site origin,
\* "/" and the post's Link.
C5_FeedItemIdentifiers ==
    Built =>
        /\ Len(site.rssFeed.Items) = Len(site.Posts)
        /\ Len(site.jsonFeed.Items) = Len(site.Posts)
        /\ \A i \in 1..Len(site.Posts) :
               /\ site.rssFeed.Items[i].Id = UrlPrefix \o site.Posts[i].Link
               /\ site.jsonFeed.Items[i].ID = UrlPrefix \o site.Posts[i].Link

\* C6 as stated: a post whose Date does not parse never stands before a post
\* whose Date parses.
C6_UnparsedNeverBeforeParsed ==
    Built => \A i, j \in 1..Len(site.Posts) :
                 (i < j /\ ~Parses(site.Posts[i])) => ~Parses(site.Posts[j])

\* C6: a post whose Date does not parse is not rejected, every regular file
\* of the corpus has its post in the index Build returns, and it is ordered
\* as a post dated 0001-01-01, the zero time: a post standing after it whose
\* Date parses is dated 0001-01-01 or earlier.
C6_UnparsedSortsAsZeroTime ==
    Built =>
        /\ \A k \in RegularFiles :
               \E i \in 1..Len(site.Posts) : site.Posts[i].addr = k
        /\ \A i, j \in 1..Len(site.Posts) :
               (i < j /\ ~Parses(site.Posts[i]) /\ Parses(site.Posts[j]))
                   => DateOf(site.Posts[j]) <= Date(1, 1, 1)

\* C6 witness: a built index in which a post whose Date does not parse,
\* discovered first, stands after a post whose Date parses.
C6_Witness ==
    /\ Built
    /\ \E i, j \in 1..Len(site.Posts) :
           /\ i < j
           /\ Parses(site.Posts[i]) /\ ~Parses(site.Posts[j])
           /\ site.Posts[j].addr < site.Posts[i].addr

\* C7: when the walk, the open, the read or the decoding of any entry
\* fails, Build returns an error and a nil Site: nothing is served, whatever
\* was loaded before.
C7_AnyFileFailureIsFatal ==
    (/\ pc \in {"returned", "exited", "listening"}
     /\ \E k \in 1..Len(corpus) : corpus[k].content.io # "ok")
    => /\ err # Nil
       /\ site = NilSite
       /\ served = NilSite
       /\ pc # "listening"

\* C7 witness: Build has returned a file's error after loading a post.
C7_Witness ==
    /\ pc = "returned"
    /\ err \in IOFailures
    /\ site = NilSite
    /\ s # NilSite
    /\ Len(s.Posts) >= 1

\* filepath.Ext: the suffix of the last path element from its last "."
RECURSIVE Ext(_)
Ext(path) ==
    IF path = << >> \/ path[Len(path)] = "/" THEN << >>
    ELSE IF path[Len(path)] = "." THEN <<".">>
    ELSE LET e == Ext(SubSeq(path, 1, Len(path) - 1))
         IN  IF e = << >> THEN << >> ELSE Append(e, path[Len(path)])

\* the path without its trailing extension
TrimExt(path) == SubSeq(path, 1, Len(path) - Len(Ext(path)))

\* C8: the Link of every post is the path of its file, as the walk names it,
\* with only the trailing extension removed.
C8_LinkIsPathWithoutExtension ==
    (s # NilSite) => \A i \in 1..Len(s.Posts) :
                     s.Posts[i].Link = TrimExt(corpus[s.Posts[i].addr].path)

\* the feeds hold one item per post of the index
FeedsBuilt(st) ==
    /\ Len(st.rssFeed.Items) = Len(st.Posts)
    /\ Len(st.jsonFeed.Items) = Len(st.Posts)

\* C9: main listens only after Build has returned a nil error and the Site
\* it built in full (every regular file loaded, the index sorted, the feed
\* items built); Build is called at most once; after Build has failed main
\* never listens.
C9_ListenOnlyAfterBuild ==
    /\ [](buildCalls <= 1)
    /\ [](pc = "listening" =>
            /\ err = Nil
            /\ served # NilSite
            /\ served = s
            /\ \A k \in RegularFiles :
                   \E i \in 1..Len(served.Posts) : served.Posts[i].addr = k
            /\ \A i \in 1..(Len(served.Posts) - 1) :
                   ~Less(served.Posts, i, i + 1)
            /\ FeedsBuilt(served))
    /\ [][(err # Nil \/ pc = "exited") => (pc' # "listening" /\ err' # Nil)]_vars
    /\ [][pc' = "listening" => (pc = "returned" /\ buildCalls = 1)]_vars

\* C9 witness: main listens with a Site of two posts.
C9_Witness ==
    /\ pc = "listening"
    /\ served # NilSite
    /\ Len(served.Posts) >= 2

\* C10: the publish time of every feed item is the post's Date as
\* time.Parse("2006-01-02") returns it, the zero time on an error, and the
\* feed items compare by time as Posts.Less compares their posts.
C10_FeedTimeIsSortTime ==
    (pc = "routes" \/ Built)
    => /\ FeedsBuilt(s)
       /\ \A i \in 1..Len(s.Posts) :
              /\ s.rssFeed.Items[i].Created = DateOf(s.Posts[i])
              /\ s.jsonFeed.Items[i].DatePublished = DateOf(s.Posts[i])
       /\ \A i, j \in 1..Len(s.Posts) :
              Less(s.Posts, i, j)
                  <=> Unix(s.rssFeed.Items[i].Created)
                          < Unix(s.rssFeed.Items[j].Created)

\* C10 witness: the feeds are built for a post whose Date does not parse and
\* a post whose Date does.
C10_Witness ==
    /\ Built
    /\ \E i, j \in 1..Len(site.rssFeed.Items) :
           /\ ~Parses(site.Posts[i])
           /\ Parses(site.Posts[j])
           /\ site.rssFeed.Items[i].Created = ZeroTime
           /\ site.rssFeed.Items[j].Created > ZeroTime

C12_FeedsFollowIndexOrder ==
    (pc = "routes" \/ Built)
    => /\ FeedsBuilt(s)
       /\ \A i \in 1..(Len(s.Posts) - 1) : ~Less(s.Posts, i, i + 1)
       /\ \A i \in 1..Len(s.Posts) :
              /\ s.rssFeed.Items[i].Title = s.Posts[i].Title
              /\ s.rssFeed.Items[i].Link.Href = UrlPrefix \o s.Posts[i].Link
              /\ s.jsonFeed.Items[i].Title = s.Posts[i].Title
              /\ s.jsonFeed.Items[i].URL = UrlPrefix \o s.Posts[i].Link

\* C12 witness: a built Site whose index the sort reordered, with feed items
\* of different titles and Links.
C12_Witness ==
    /\ Built
    /\ Len(site.Posts) >= 2
    /\ site.Posts[1].addr > site.Posts[2].addr
    /\ site.rssFeed.Items[1].Title # site.rssFeed.Items[2].Title
    /\ site.jsonFeed.Items[1].URL # site.jsonFeed.Items[2].URL

\* C13: Build never assigns Summary: after a successful Build every post's
\* Summary and every RSS item's Description is the empty string, and every
\* JSON Feed item's content is the rendered body of that post's file.
C13_SummaryEmptyContentRendered ==
    Built => /\ FeedsBuilt(site)
             /\ \A i \in 1..Len(site.Posts) :
                    /\ site.Posts[i].Summary = ""
                    /\ site.rssFeed.Items[i].Description = ""
                    /\ site.jsonFeed.Items[i].ContentHTML = site.Posts[i].BodyHTML
                    /\ site.jsonFeed.Items[i].ContentHTML
                           = Run(corpus[site.Posts[i].addr].content.body)

\* C13 witness: a built Site with a post whose RSS description is empty and
\* whose JSON Feed content is its rendered body.
C13_Witness ==
    /\ Built
    /\ \E i \in 1..Len(site.Posts) :
           /\ site.Posts[i].Body = "rust"
           /\ site.rssFeed.Items[i].Description = ""
           /\ site.jsonFeed.Items[i].ContentHTML = <<"html", "rust">>

====
